---- MODULE Spec2Model ----
(***************************************************************************)
(* A model of git_changelog.providers: the reference grammar (RefRe), the  *)
(* two provider grammars (GitHub.REF, GitLab.REF), the matching engine     *)
(* (parse_refs / get_refs) and URL synthesis (build_ref_url, get_tag_url,  *)
(* get_compare_url).                                                       *)
(*                                                                         *)
(* Strings are sequences of string fragments.  A text that is matched is a *)
(* sequence of one-character fragments; literals of URL templates are kept *)
(* as longer fragments.  Str flattens either into one string, which is the *)
(* form URLs are compared in.                                              *)
(***************************************************************************)
EXTENDS Integers, Sequences, FiniteSets, TLC

VARIABLES
    self,        \* the provider instance: its class, namespace, project, url
    REF,         \* the REF table of the instance's class: kind -> regex, url
    text,        \* the text the caller passes to parse_refs / get_refs
    call,        \* the last call made: its name and arguments
    matches,     \* the Match objects parse_refs gave the last get_refs
    match_dict,  \* the mapping object the caller passes to build_ref_url
    returned,    \* what each build_ref_url call on match_dict returned, in order
    result,      \* what the last call returned or raised
    threads      \* the callers that share the instance, each with its position

vars == <<self, REF, text, call, matches, match_dict, returned, result, threads>>

-----------------------------------------------------------------------------
(* Characters and strings *)

LowerLetters == <<"a","b","c","d","e","f","g","h","i","j","k","l","m",
                  "n","o","p","q","r","s","t","u","v","w","x","y","z">>
UpperLetters == <<"A","B","C","D","E","F","G","H","I","J","K","L","M",
                  "N","O","P","Q","R","S","T","U","V","W","X","Y","Z">>

Range(s) == {s[i] : i \in DOMAIN s}

Lower == Range(LowerLetters)
Upper == Range(UpperLetters)
Digits == {"0","1","2","3","4","5","6","7","8","9"}

\* \s of the re module, and the characters str.strip() removes
Whitespace == {" ", "\t", "\n", "\r", "\f"}
\* \w of the re module
WordChars == Lower \cup Upper \cup Digits \cup {"_"}

ToLower(c) ==
    IF c \in Upper
    THEN LowerLetters[CHOOSE i \in DOMAIN UpperLetters : UpperLetters[i] = c]
    ELSE c

ToUpper(c) ==
    IF c \in Lower
    THEN UpperLetters[CHOOSE i \in DOMAIN LowerLetters : LowerLetters[i] = c]
    ELSE c

RECURSIVE Str(_)
Str(s) == IF s = <<>> THEN "" ELSE Head(s) \o Str(Tail(s))

RECURSIVE Flatten(_)
Flatten(ss) == IF ss = <<>> THEN <<>> ELSE Head(ss) \o Flatten(Tail(ss))

StartsWith(s, prefix) ==
    /\ Len(prefix) <= Len(s)
    /\ SubSeq(s, 1, Len(prefix)) = prefix

\* Python's None, as a value no string equals
None == <<"<None>">>

-----------------------------------------------------------------------------
(* Regular expressions: the syntax tree of a pattern and the backtracking  *)
(* matcher of the re module.  Match returns every way a node can match at  *)
(* a position, in the order the backtracking matcher tries them, so the    *)
(* head of the list is the match re reports.                               *)

Bol == [t |-> "bol"]                                  \* ^
Eol == [t |-> "eol"]                                  \* $
Set(s) == [t |-> "set", s |-> s]                      \* [...]
Lit(c) == Set({c})
Rep(s, min, max) == [t |-> "rep", s |-> s, min |-> min, max |-> max, inf |-> FALSE] \* [...]{min,max}
Star(s) == [t |-> "rep", s |-> s, min |-> 0, max |-> 0, inf |-> TRUE]  \* [...]*
Plus(s) == [t |-> "rep", s |-> s, min |-> 1, max |-> 1, inf |-> TRUE]  \* [...]+
Opt(a) == [t |-> "opt", a |-> a]                      \* (?:a)?
Alt(a, b) == [t |-> "alt", a |-> a, b |-> b]          \* (?:a|b)
Group(name, a) == [t |-> "grp", name |-> name, a |-> a] \* (?P<name>a)
Cat(items) == [t |-> "cat", items |-> items]          \* concatenation

\* pattern + "?": the quantifier binds to the last item of the pattern
OptLast(re) ==
    Cat([i \in DOMAIN re.items |->
            IF i = Len(re.items) THEN Opt(re.items[i]) ELSE re.items[i]])

\* re.I: a character matches a class when either of its cases is in it
CharIn(c, s, flags) ==
    \/ c \in s
    \/ "I" \in flags /\ (ToLower(c) \in s \/ ToUpper(c) \in s)

\* the number of consecutive characters of the class from pos on, at most cap
RECURSIVE RunLength(_, _, _, _, _)
RunLength(txt, pos, s, flags, cap) ==
    IF cap = 0 \/ pos > Len(txt) \/ ~CharIn(txt[pos], s, flags)
    THEN 0
    ELSE 1 + RunLength(txt, pos + 1, s, flags, cap - 1)

RECURSIVE GroupNames(_)
GroupNames(re) ==
    CASE re.t = "grp" -> {re.name} \cup GroupNames(re.a)
      [] re.t = "opt" -> GroupNames(re.a)
      [] re.t = "alt" -> GroupNames(re.a) \cup GroupNames(re.b)
      [] re.t = "cat" -> UNION {GroupNames(re.items[i]) : i \in DOMAIN re.items}
      [] OTHER -> {}

RECURSIVE Match(_, _, _, _)
RECURSIVE MatchEach(_, _, _, _)
RECURSIVE MatchItems(_, _, _, _)

\* every state the node can leave the matcher in, from every state of sts
MatchEach(re, txt, flags, sts) ==
    IF sts = <<>> THEN <<>>
    ELSE Match(re, txt, flags, Head(sts)) \o MatchEach(re, txt, flags, Tail(sts))

MatchItems(items, txt, flags, sts) ==
    IF items = <<>> \/ sts = <<>> THEN sts
    ELSE MatchItems(Tail(items), txt, flags, MatchEach(Head(items), txt, flags, sts))

Match(re, txt, flags, st) ==
    CASE re.t = "bol" -> IF st.pos = 1 THEN <<st>> ELSE <<>>
      [] re.t = "eol" ->
            \* $ matches at the end and before a newline that ends the text
            IF \/ st.pos = Len(txt) + 1
               \/ st.pos = Len(txt) /\ txt[st.pos] = "\n"
            THEN <<st>> ELSE <<>>
      [] re.t = "set" ->
            IF st.pos <= Len(txt) /\ CharIn(txt[st.pos], re.s, flags)
            THEN <<[st EXCEPT !.pos = @ + 1]>> ELSE <<>>
      [] re.t = "rep" ->
            \* greedy: the longest run first, then each shorter one
            LET n == RunLength(txt, st.pos, re.s, flags,
                               IF re.inf THEN Len(txt) ELSE re.max)
            IN  IF n < re.min THEN <<>>
                ELSE [k \in 1..(n - re.min + 1) |->
                         [st EXCEPT !.pos = @ + (n - k + 1)]]
      [] re.t = "opt" -> Match(re.a, txt, flags, st) \o <<st>>
      [] re.t = "alt" -> Match(re.a, txt, flags, st) \o Match(re.b, txt, flags, st)
      [] re.t = "grp" ->
            LET rs == Match(re.a, txt, flags, st)
            IN  [i \in DOMAIN rs |->
                    [rs[i] EXCEPT !.groups[re.name] = SubSeq(txt, st.pos, rs[i].pos - 1)]]
      [] re.t = "cat" -> MatchItems(re.items, txt, flags, <<st>>)

\* Pattern.finditer: the non-overlapping matches, scanning from the left;
\* each is a Match object (span, group(), groupdict())
RECURSIVE FindIterFrom(_, _, _)
FindIterFrom(pat, txt, from) ==
    IF from > Len(txt) + 1 THEN <<>>
    ELSE LET rs == Match(pat.re, txt, pat.flags,
                         [pos |-> from, groups |-> [n \in GroupNames(pat.re) |-> None]])
         IN  IF rs = <<>> THEN FindIterFrom(pat, txt, from + 1)
             ELSE LET end == rs[1].pos
                  IN  <<[start |-> from, end |-> end,
                         group |-> SubSeq(txt, from, end - 1),
                         groupdict |-> rs[1].groups]>>
                      \o FindIterFrom(pat, txt, IF end = from THEN from + 1 ELSE end)

finditer(pat, txt) == FindIterFrom(pat, txt, 1)

\* re.compile(pattern, re.I)
compile(re, flags) == [re |-> re, flags |-> flags]

-----------------------------------------------------------------------------
(* class RefRe *)

\* BB left out of a pattern: a reference may start anywhere
BB_missing == Cat(<<>>)
BB == Alt(Bol, Set(Whitespace \cup {","}))
\* BA made optional: a hash need not end at a boundary
BA_optional == Opt(Alt(Set(Whitespace \cup {","}), Eol))
BA == Alt(Set(Whitespace \cup {","}), Eol)
NP == Cat(<<Opt(Cat(<<Group("namespace", Plus(WordChars \cup {"-"})), Lit("/")>>)),
            Group("project", Plus(WordChars \cup {"-"}))>>)
ID(symbol) ==
    Cat(<<Lit(symbol),
          Group("ref", Cat(<<Set(Digits \ {"0"}), Star(Digits)>>))>>)
ONE_WORD(symbol) ==
    Cat(<<Lit(symbol),
          Group("ref", Cat(<<Star(WordChars),
                             Set(Lower \cup {"-", "_", " "}),
                             Star(WordChars \cup {"-"})>>))>>)
MULTI_WORD(symbol) ==
    Cat(<<Lit(symbol),
          Group("ref", Cat(<<Lit("\""), Set(WordChars),
                             Star(WordChars \cup {"-", " "}), Lit("\"")>>))>>)
HexLower == Digits \cup {"a","b","c","d","e","f"}
COMMIT(min, max) == Group("ref", Rep(HexLower, min, max))
COMMIT_RANGE(min, max) ==
    Group("ref", Cat(<<Rep(HexLower, min, max),
                       Lit("."), Lit("."), Lit("."),
                       Rep(HexLower, min, max)>>))
MENTION == Cat(<<Lit("@"),
                 Group("ref", Cat(<<Set(WordChars), Star(WordChars \cup {"-"})>>))>>)

-----------------------------------------------------------------------------
(* URL templates and str.format *)

F(name) == [k |-> "field", v |-> name]     \* {name}
L(s) == [k |-> "lit", v |-> s]             \* literal text

KeyError == [raised |-> TRUE, error |-> "KeyError"]
Returned(v) == [raised |-> FALSE, value |-> v]

\* str(value) as format substitutes it
FormatValue(v) == IF v = None THEN "None" ELSE Str(v)

\* template.format(**d)
format(template, d) ==
    IF \E i \in DOMAIN template : template[i].k = "field" /\ template[i].v \notin DOMAIN d
    THEN KeyError
    ELSE Returned(Str([i \in DOMAIN template |->
                          IF template[i].k = "field"
                          THEN FormatValue(d[template[i].v])
                          ELSE template[i].v]))

\* d[key] = value
DictSet(d, key, value) ==
    [x \in DOMAIN d \cup {key} |-> IF x = key THEN value ELSE d[x]]

\* d.get(key)
DictGet(d, key) == IF key \in DOMAIN d THEN d[key] ELSE None

\* not value, for a str or None
Falsy(v) == v = None \/ v = <<>>

\* s.replace(old, new), old a single character
replace(s, old, new) ==
    Flatten([i \in DOMAIN s |-> IF s[i] = old THEN new ELSE <<s[i]>>])

\* s.strip()
RECURSIVE lstrip(_)
lstrip(s) == IF s # <<>> /\ Head(s) \in Whitespace THEN lstrip(Tail(s)) ELSE s
RECURSIVE rstrip(_)
rstrip(s) ==
    IF s # <<>> /\ s[Len(s)] \in Whitespace THEN rstrip(SubSeq(s, 1, Len(s) - 1)) ELSE s
strip(s) == rstrip(lstrip(s))

-----------------------------------------------------------------------------
(* Kind names *)

issues == <<"i","s","s","u","e","s">>
merge_requests == <<"m","e","r","g","e","_","r","e","q","u","e","s","t","s">>
snippets == <<"s","n","i","p","p","e","t","s">>
labels == <<"l","a","b","e","l","s">>
label == <<"l","a","b","e","l">>
labels_ids == labels \o <<"_","i","d","s">>
labels_one_word == labels \o <<"_","o","n","e","_","w","o","r","d">>
labels_multi_word == labels \o <<"_","m","u","l","t","i","_","w","o","r","d">>
milestones == <<"m","i","l","e","s","t","o","n","e","s">>
milestones_ids == milestones \o <<"_","i","d","s">>
milestones_one_word == milestones \o <<"_","o","n","e","_","w","o","r","d">>
milestones_multi_word == milestones \o <<"_","m","u","l","t","i","_","w","o","r","d">>
commits == <<"c","o","m","m","i","t","s">>
commits_ranges == commits \o <<"_","r","a","n","g","e","s">>
mentions == <<"m","e","n","t","i","o","n","s">>

-----------------------------------------------------------------------------
(* class GitHub *)

GitHub_url == <<"https://github.com">>
GitHub_tag_url ==
    <<F("base_url"), L("/"), F("namespace"), L("/"), F("project"),
      L("/releases/tag/"), F("ref")>>

ProjectUrl(tail) ==
    <<F("base_url"), L("/"), F("namespace"), L("/"), F("project")>> \o tail

\* GitHub.REF: the compiled patterns (immutable objects, named by kind)
GitHub_regex(kind) ==
    CASE kind = issues ->
            compile(Cat(<<BB, OptLast(NP), ID("#")>>), {"I"})
      [] kind = commits ->
            compile(Cat(<<BB, Opt(Cat(<<NP, Lit("@")>>)), COMMIT(7, 40), BA>>), {"I"})
      [] kind = commits_ranges ->
            compile(Cat(<<BB, Opt(Cat(<<NP, Lit("@")>>)), COMMIT_RANGE(7, 40)>>), {"I"})
      [] kind = mentions ->
            compile(Cat(<<BB, MENTION>>), {"I"})

\* GitHub.REF: the dict, in insertion order; regex refers to the compiled pattern
GitHub_REF ==
    << [name |-> issues, regex |-> <<"GitHub", issues>>,
        url |-> ProjectUrl(<<L("/issues/"), F("ref")>>)],
       [name |-> commits, regex |-> <<"GitHub", commits>>,
        url |-> ProjectUrl(<<L("/commit/"), F("ref")>>)],
       [name |-> commits_ranges, regex |-> <<"GitHub", commits_ranges>>,
        url |-> ProjectUrl(<<L("/compare/"), F("ref")>>)],
       [name |-> mentions, regex |-> <<"GitHub", mentions>>,
        url |-> <<F("base_url"), L("/"), F("ref")>>] >>

-----------------------------------------------------------------------------
(* class GitLab *)

GitLab_url == <<"https://gitlab.com">>
GitLab_tag_url ==
    <<F("base_url"), L("/"), F("namespace"), L("/"), F("project"),
      L("/tags/"), F("ref")>>

GitLab_regex(kind) ==
    CASE kind = issues -> compile(Cat(<<BB, OptLast(NP), ID("#")>>), {"I"})
      [] kind = merge_requests -> compile(Cat(<<BB, OptLast(NP), ID("!")>>), {"I"})
      [] kind = snippets -> compile(Cat(<<BB, OptLast(NP), ID("$")>>), {"I"})
      [] kind = labels_ids -> compile(Cat(<<BB, OptLast(NP), ID("~")>>), {"I"})
      [] kind = labels_one_word -> compile(Cat(<<BB, OptLast(NP), ONE_WORD("~")>>), {"I"})
      [] kind = labels_multi_word -> compile(Cat(<<BB, OptLast(NP), MULTI_WORD("~")>>), {"I"})
      [] kind = milestones_ids -> compile(Cat(<<BB, OptLast(NP), ID("%")>>), {"I"})
      [] kind = milestones_one_word -> compile(Cat(<<BB, OptLast(NP), ONE_WORD("%")>>), {"I"})
      [] kind = milestones_multi_word -> compile(Cat(<<BB, OptLast(NP), MULTI_WORD("%")>>), {"I"})
      [] kind = commits ->
            compile(Cat(<<BB, Opt(Cat(<<NP, Lit("@")>>)), COMMIT(8, 40), BA>>), {"I"})
      [] kind = commits_ranges ->
            compile(Cat(<<BB, Opt(Cat(<<NP, Lit("@")>>)), COMMIT_RANGE(8, 40)>>), {"I"})
      [] kind = mentions -> compile(Cat(<<BB, MENTION>>), {"I"})

GitLab_REF ==
    << [name |-> issues, regex |-> <<"GitLab", issues>>,
        url |-> ProjectUrl(<<L("/issues/"), F("ref")>>)],
       [name |-> merge_requests, regex |-> <<"GitLab", merge_requests>>,
        url |-> ProjectUrl(<<L("/merge_requests/"), F("ref")>>)],
       [name |-> snippets, regex |-> <<"GitLab", snippets>>,
        url |-> ProjectUrl(<<L("/snippets/"), F("ref")>>)],
       [name |-> labels_ids, regex |-> <<"GitLab", labels_ids>>,
        url |-> ProjectUrl(<<L("/issues?label_name[]="), F("ref")>>)],
       [name |-> labels_one_word, regex |-> <<"GitLab", labels_one_word>>,
        url |-> ProjectUrl(<<L("/issues?label_name[]="), F("ref")>>)],
       [name |-> labels_multi_word, regex |-> <<"GitLab", labels_multi_word>>,
        url |-> ProjectUrl(<<L("/issues?label_name[]="), F("ref")>>)],
       [name |-> milestones_ids, regex |-> <<"GitLab", milestones_ids>>,
        url |-> ProjectUrl(<<L("/milestones/"), F("ref")>>)],
       [name |-> milestones_one_word, regex |-> <<"GitLab", milestones_one_word>>,
        url |-> ProjectUrl(<<L("/milestones")>>)],
       [name |-> milestones_multi_word, regex |-> <<"GitLab", milestones_multi_word>>,
        url |-> ProjectUrl(<<L("/milestones")>>)],
       [name |-> commits, regex |-> <<"GitLab", commits>>,
        url |-> ProjectUrl(<<L("/commit/"), F("ref")>>)],
       [name |-> commits_ranges, regex |-> <<"GitLab", commits_ranges>>,
        url |-> ProjectUrl(<<L("/compare/"), F("ref")>>)],
       [name |-> mentions, regex |-> <<"GitLab", mentions>>,
        url |-> <<F("base_url"), L("/"), F("ref")>>] >>

\* the compiled pattern a REF entry refers to
Pattern(id) == IF id[1] = "GitHub" THEN GitHub_regex(id[2]) ELSE GitLab_regex(id[2])

-----------------------------------------------------------------------------
(* class Ref, class ProviderRefParser *)

Ref(ref, url) == [ref |-> ref, url |-> url]

\* ref_type in self.REF, self.REF[ref_type]
HasKey(tbl, ref_type) == \E i \in DOMAIN tbl : tbl[i].name = ref_type
Entry(tbl, ref_type) == tbl[CHOOSE i \in DOMAIN tbl : tbl[i].name = ref_type]

\* ref_type in k: a kind is selected by any part of its name
KindSelected_contains(k, ref_type) ==
    \E i \in 1..(Len(k) - Len(ref_type) + 1) :
        SubSeq(k, i, i + Len(ref_type) - 1) = ref_type

\* k.startswith(ref_type), the test parse_refs selects kinds with
KindSelected(k, ref_type) == StartsWith(k, ref_type)

parse_refs(tbl, ref_type, txt) ==
    IF ~HasKey(tbl, ref_type)
    THEN Flatten([i \in DOMAIN tbl |->
                     IF KindSelected(tbl[i].name, ref_type)
                     THEN finditer(Pattern(tbl[i].regex), txt)
                     ELSE <<>>])
    ELSE finditer(Pattern(Entry(tbl, ref_type).regex), txt)

\* ProviderRefParser.build_ref_url: self.REF[ref_type]["url"].format(**match_dict)
ProviderRefParser_build_ref_url(tbl, ref_type, d) ==
    IF ~HasKey(tbl, ref_type) THEN KeyError
    ELSE format(Entry(tbl, ref_type).url, d)

\* the defaulting both providers apply to the dict they are handed
FillBaseUrl(slf, d) == DictSet(d, "base_url", slf.url)
\* the captured namespace overwritten by the provider's own
FillNamespace_overwrite(slf, d) == DictSet(d, "namespace", slf.namespace)
FillNamespace(slf, d) ==
    IF Falsy(DictGet(d, "namespace")) THEN DictSet(d, "namespace", slf.namespace) ELSE d
FillProject(slf, d) ==
    IF Falsy(DictGet(d, "project")) THEN DictSet(d, "project", slf.project) ELSE d

\* GitHub.build_ref_url: the dict as the call leaves it, and what the call returns
GitHub_build_ref_url(slf, tbl, ref_type, d) ==
    LET d3 == FillProject(slf, FillNamespace(slf, FillBaseUrl(slf, d)))
    IN  [dict |-> d3, out |-> ProviderRefParser_build_ref_url(tbl, ref_type, d3)]

\* the ref percent-encoded as urllib.parse.quote_plus does: "+" becomes %2B
\* and a space becomes "+"
LabelRef_quote_plus(ref) ==
    replace(replace(replace(ref, "\"", <<>>), "+", <<"%", "2", "B">>), " ", <<"+">>)

\* match_dict["ref"].replace('"', "").replace(" ", "+")
LabelRef(ref) == replace(replace(ref, "\"", <<>>), " ", <<"+">>)

GitLab_build_ref_url(slf, tbl, ref_type, d) ==
    LET d3 == FillProject(slf, FillNamespace(slf, FillBaseUrl(slf, d)))
    IN  IF StartsWith(ref_type, label)
        THEN IF "ref" \notin DOMAIN d3
             THEN [dict |-> d3, out |-> KeyError]
             ELSE LET d4 == DictSet(d3, "ref", LabelRef(d3["ref"]))
                  IN  [dict |-> d4, out |-> ProviderRefParser_build_ref_url(tbl, ref_type, d4)]
        ELSE [dict |-> d3, out |-> ProviderRefParser_build_ref_url(tbl, ref_type, d3)]

build_ref_url(slf, tbl, ref_type, d) ==
    IF slf.cls = "GitHub"
    THEN GitHub_build_ref_url(slf, tbl, ref_type, d)
    ELSE GitLab_build_ref_url(slf, tbl, ref_type, d)

\* get_refs: a Ref per match, or the exception the first failing build_ref_url raises
get_refs(slf, tbl, ref_type, txt) ==
    LET ms == parse_refs(tbl, ref_type, txt)
        outs == [i \in DOMAIN ms |-> build_ref_url(slf, tbl, ref_type, ms[i].groupdict).out]
    IN  IF \E i \in DOMAIN outs : outs[i].raised
        THEN outs[CHOOSE i \in DOMAIN outs :
                     outs[i].raised /\ \A j \in 1..(i - 1) : ~outs[j].raised]
        ELSE Returned([i \in DOMAIN ms |-> Ref(strip(ms[i].group), outs[i].value)])

get_tag_url(slf, tag) ==
    format(IF slf.cls = "GitHub" THEN GitHub_tag_url ELSE GitLab_tag_url,
           [base_url |-> slf.url, namespace |-> slf.namespace,
            project |-> slf.project, ref |-> tag])

get_compare_url(slf, tbl, base, target) ==
    build_ref_url(slf, tbl, commits_ranges,
                  [ref |-> base \o <<".", ".", ".">> \o target]).out

\* GitHub(namespace, project, url), GitLab(namespace, project, url)
GitHub(namespace, project, url) ==
    [cls |-> "GitHub", namespace |-> namespace, project |-> project, url |-> url]
GitLab(namespace, project, url) ==
    [cls |-> "GitLab", namespace |-> namespace, project |-> project, url |-> url]

ClassREF(cls) == IF cls = "GitHub" THEN GitHub_REF ELSE GitLab_REF

-----------------------------------------------------------------------------
(* Bounds of the model and the inputs drawn within them *)

MaxIdText == 3       \* longest text enumerated over IdAlphabet
MaxLabelText == 4    \* longest text enumerated over LabelAlphabet
MaxRun == 42         \* longest run of hexadecimal characters
MaxRef == 2          \* longest ref of a mapping handed to build_ref_url
MaxCalls == 2        \* build_ref_url calls made on one mapping object

\* every text of at most n characters of the alphabet
ShortTexts(alphabet, n) == UNION {[1..k -> alphabet] : k \in 0..n}

\* a provider of each class, one on the default url and one self-hosted
Providers ==
    { GitHub(<<"n","s">>, <<"p","r">>, GitHub_url),
      GitLab(<<"g","r","p">>, <<"p","r","j">>, <<"https://git.example.org">>) }

NoCall == [op |-> "none"]
NoResult == [raised |-> FALSE, value |-> <<>>]

\* the kinds built from RefRe.ID, with their symbols
IdSymbol(kind) ==
    CASE kind = issues -> "#"
      [] kind = merge_requests -> "!"
      [] kind = snippets -> "$"
      [] kind = labels_ids -> "~"
      [] kind = milestones_ids -> "%"
IdKinds(cls) ==
    IF cls = "GitHub" THEN {issues}
    ELSE {issues, merge_requests, snippets, labels_ids, milestones_ids}

\* a symbol, a non-zero digit, zero, a letter, both boundary characters, the
\* namespace separator and a character that is none of these
IdAlphabet(symbol) == {symbol, "1", "0", "a", " ", ",", "/", "."}

\* longer example texts, beyond the enumerated ones
Chars_see_42 ==
    <<"s","e","e"," ","#","4","2"," ","a","n","d"," ",
      "o","w","n","e","r","/","o","t","h","e","r","#","7">>
IdExamples ==
    { Chars_see_42,
      <<"a","b","c","#","1">>,
      <<"o","/","p","#","1"," ","#","2">>,
      <<"o","/","#","1">>,
      <<"#","1","\n">> }

\* selectors that are no kind of either provider and no prefix of one
UnknownSelectors ==
    { <<"z","z","z">>, issues \o <<"x">>, <<"s","s","u","e","s">>, <<"I","s","s","u","e","s">> }

-----------------------------------------------------------------------------
(* The calls a caller makes on the instance, one action per method *)

\* provider.get_refs(ref_type, text)
GetRefs(ref_type) ==
    /\ call = NoCall
    /\ call' = [op |-> "get_refs", ref_type |-> ref_type]
    /\ matches' = parse_refs(REF, ref_type, text)
    /\ result' = get_refs(self, REF, ref_type, text)
    /\ UNCHANGED <<self, REF, text, match_dict, returned, threads>>

\* the caller takes the value the call returned (or the exception) and is
\* ready for its next call
Consume ==
    /\ call # NoCall
    /\ call' = NoCall
    /\ matches' = <<>>
    /\ result' = NoResult
    /\ UNCHANGED <<self, REF, text, match_dict, returned, threads>>

Init ==
    /\ self \in Providers
    /\ REF = ClassREF(self.cls)
    /\ \E kind \in IdKinds(self.cls) :
          text \in ShortTexts(IdAlphabet(IdSymbol(kind)), MaxIdText) \cup IdExamples
    /\ call = NoCall
    /\ matches = <<>>
    /\ match_dict = <<>>
    /\ returned = <<>>
    /\ result = NoResult
    /\ threads = <<>>

Next ==
    \/ \E kind \in IdKinds(self.cls) :
          /\ IdSymbol(kind) \in Range(text) \/ kind = issues
          /\ GetRefs(kind)
    \/ \E sel \in UnknownSelectors : GetRefs(sel)
    \/ Consume

Spec == Init /\ [][Next]_vars

-----------------------------------------------------------------------------
(* Properties of the numeric-id grammar and of get_refs, under Spec *)

Boundary == Whitespace \cup {","}

\* <base>/<namespace>/<project>/issues/<ref>
IssueUrl(base, namespace, project, ref) ==
    Str(base \o <<"/">> \o namespace \o <<"/">> \o project \o <<"/issues/">> \o ref)

\* C2: every issue reference get_refs("issues", text) returns resolves to the
\* captured namespace and project where the text gives them, to the provider's
\* own where it does not, always under the provider's base url; and
\* "see #42 and owner/other#7" on GitHub yields #42 in the provider's own
\* project followed by owner/other#7 in owner/other.
C2_IssueUrlDefaults ==
    (call.op = "get_refs" /\ call.ref_type = issues) =>
        /\ ~result.raised
        /\ Len(result.value) = Len(matches)
        /\ \A i \in DOMAIN matches :
              LET g == matches[i].groupdict
              IN  result.value[i].url =
                      IssueUrl(self.url,
                               IF g.namespace \in {None, <<>>} THEN self.namespace ELSE g.namespace,
                               IF g.project \in {None, <<>>} THEN self.project ELSE g.project,
                               g.ref)
        /\ (self.cls = "GitHub" /\ text = Chars_see_42) =>
              result.value =
                  << Ref(<<"#","4","2">>, "https://github.com/ns/pr/issues/42"),
                     Ref(<<"o","w","n","e","r","/","o","t","h","e","r","#","7">>,
                         "https://github.com/owner/other/issues/7") >>

C2_Witness ==
    /\ call.op = "get_refs" /\ call.ref_type = issues
    /\ self.cls = "GitHub" /\ text = Chars_see_42
    /\ ~result.raised /\ Len(result.value) = 2

\* the position in the text of the symbol of a match of an ID pattern
SymbolAt(m) == m.end - Len(m.groupdict.ref) - 1

IdCall == call.op = "get_refs" /\ call.ref_type \in IdKinds(self.cls)

\* "#1" at the start of the text, after whitespace and after a comma
BoundaryCases(symbol) ==
    { <<symbol, "1">>, <<" ", symbol, "1">>, <<",", symbol, "1">> }

OneMatchWithRef1 == Len(matches) = 1 /\ matches[1].groupdict.ref = <<"1">>

C5_RefTextHasNoBoundary ==
    (call.op = "get_refs" /\ ~result.raised) =>
        \A i \in DOMAIN result.value :
            LET r == result.value[i].ref
            IN  /\ r # <<>>
                /\ r[1] \notin Boundary
                /\ r[Len(r)] \notin Boundary

\* C6: get_refs returns the empty list, and raises nothing, for a selector that
\* is neither a registered kind nor a prefix of one, and for a registered kind
\* on a text with no match of that kind.
C6_UnknownSelectorOrNoMatchIsEmpty ==
    call.op = "get_refs" =>
        /\ (/\ ~HasKey(REF, call.ref_type)
            /\ \A i \in DOMAIN REF : ~StartsWith(REF[i].name, call.ref_type))
               => result = Returned(<<>>)
        /\ (HasKey(REF, call.ref_type) /\ matches = <<>>) => result = Returned(<<>>)

C6_Witness ==
    /\ call.op = "get_refs"
    /\ call.ref_type = <<"s","s","u","e","s">>
    /\ text = <<" ", "#", "1">>
    /\ result = Returned(<<>>)

-----------------------------------------------------------------------------
(* Commit hashes: the texts and the calls of SpecCommits *)

\* runs of one lower-case letter, one upper-case letter, one digit, mixed case
HexPatterns == { <<"a">>, <<"F">>, <<"0">>, <<"a","B","3","d">> }
Run(pattern, n) == [i \in 1..n |-> pattern[((i - 1) % Len(pattern)) + 1]]

HexRuns == {Run(p, n) : p \in HexPatterns, n \in 0..MaxRun}

\* two hashes around the minimum lengths, one or two separators between them
PairLengths == 6..9
PairSeparators == { <<" ">>, <<",">>, <<"\t">>, <<" ", " ">>, <<",", " ">> }
HexPairs ==
    {Run(<<"a","1">>, n1) \o sep \o Run(<<"d","E","2">>, n2) :
        n1 \in PairLengths, n2 \in PairLengths, sep \in PairSeparators}

\* a hash with text before or after it
HexAround ==
    {pre \o Run(<<"a","1">>, n) \o post :
        n \in PairLengths,
        pre \in { <<>>, <<" ">>, <<"x">>, <<".">>, <<"p","@">>, <<"o","/","p","@">> },
        post \in { <<>>, <<",">>, <<"\n">>, <<"x">>, <<".">> }}

Chars_abc1234 == <<"a","b","c","1","2","3","4">>
Chars_def5678 == <<"d","e","f","5","6","7","8">>
CommitExamples ==
    { Chars_abc1234 \o <<" ">> \o Chars_def5678,
      Chars_abc1234 \o <<".",".",".">> \o Chars_def5678 }

InitCommits ==
    /\ self \in Providers
    /\ REF = ClassREF(self.cls)
    /\ text \in HexRuns \cup HexPairs \cup HexAround \cup CommitExamples
    /\ call = NoCall
    /\ matches = <<>>
    /\ match_dict = <<>>
    /\ returned = <<>>
    /\ result = NoResult
    /\ threads = <<>>

NextCommits ==
    \/ GetRefs(commits)
    \/ GetRefs(commits_ranges)
    \/ Consume

SpecCommits == InitCommits /\ [][NextCommits]_vars

HexChars == Digits \cup {"a","b","c","d","e","f","A","B","C","D","E","F"}
IsHexRun(t) == \A i \in DOMAIN t : t[i] \in HexChars

\* C4: on a text that is one run of L hexadecimal characters of any case,
\* get_refs("commits", text) returns exactly one reference, the whole run,
\* when MIN <= L <= 40, and none otherwise (no prefix of a longer run);
\* MIN is 7 for GitHub and 8 for GitLab.
C4_CommitRunLength ==
    (call.op = "get_refs" /\ call.ref_type = commits /\ IsHexRun(text)) =>
        IF (IF self.cls = "GitHub" THEN 7 ELSE 8) <= Len(text) /\ Len(text) <= 40
        THEN /\ ~result.raised
             /\ Len(result.value) = 1
             /\ result.value[1].ref = text
             /\ Len(matches) = 1
             /\ matches[1].groupdict.ref = text
        ELSE result = Returned(<<>>)

C4_Witness ==
    /\ call.op = "get_refs" /\ call.ref_type = commits
    /\ IsHexRun(text) /\ Len(text) = 41
    /\ result = Returned(<<>>)

\* C9: two hashes of valid length separated by exactly one whitespace
\* character or comma are both returned by get_refs("commits", text), in text
\* order.
C9_SharedSeparatorBothCommits ==
    (call.op = "get_refs" /\ call.ref_type = commits) =>
        \A k \in DOMAIN text :
            LET first == SubSeq(text, 1, k - 1)
                second == SubSeq(text, k + 1, Len(text))
                min == IF self.cls = "GitHub" THEN 7 ELSE 8
            IN  (/\ text[k] \in Boundary
                 /\ IsHexRun(first) /\ min <= Len(first) /\ Len(first) <= 40
                 /\ IsHexRun(second) /\ min <= Len(second) /\ Len(second) <= 40)
                    => /\ ~result.raised
                       /\ Len(result.value) = 2
                       /\ matches[1].groupdict.ref = first
                       /\ matches[2].groupdict.ref = second

-----------------------------------------------------------------------------
(* Labels and milestones of GitLab: the texts and the calls of SpecLabels *)

\* the symbol of each label and milestone selector
NameSymbol(selector) == IF StartsWith(selector, label) THEN "~" ELSE "%"
NameSelectors ==
    { labels, labels_ids, labels_one_word, labels_multi_word,
      milestones, milestones_ids, milestones_one_word, milestones_multi_word }

\* a symbol, a digit, a letter, a space, a quote and a hyphen
LabelAlphabet(symbol) == {symbol, "1", "a", " ", "\"", "-"}

LabelExamples ==
    { <<"~","1"," ","~","b","u","g"," ","~","\"","a"," ","b","\"">>,
      <<"~","1"," "," ","~","b","u","g",","," ","~","\"","a"," ","b","\"">>,
      <<"~","\"","n","e","e","d","s"," ","r","e","v","i","e","w","\"">>,
      <<"~","1","2","3"," ","a","b","c">> }

InitLabels ==
    /\ self \in {p \in Providers : p.cls = "GitLab"}
    /\ REF = ClassREF(self.cls)
    /\ \E symbol \in {"~", "%"} :
          text \in ShortTexts(LabelAlphabet(symbol), MaxLabelText) \cup LabelExamples
    /\ call = NoCall
    /\ matches = <<>>
    /\ match_dict = <<>>
    /\ returned = <<>>
    /\ result = NoResult
    /\ threads = <<>>

NextLabels ==
    \/ \E selector \in NameSelectors :
          /\ NameSymbol(selector) \in Range(text)
          /\ GetRefs(selector)
    \/ Consume

SpecLabels == InitLabels /\ [][NextLabels]_vars

\* C1: on GitLab, get_refs("labels", text) on a text with a label by id, a
\* one-word label and a multi-word label raises nothing and returns the
\* labels_ids references, then the labels_one_word ones, then the
\* labels_multi_word ones, each with its URL.
C1_LabelsPrefixConcatenation ==
    (/\ call.op = "get_refs" /\ call.ref_type = labels
     /\ self.cls = "GitLab"
     /\ parse_refs(REF, labels_ids, text) # <<>>
     /\ parse_refs(REF, labels_one_word, text) # <<>>
     /\ parse_refs(REF, labels_multi_word, text) # <<>>)
        => /\ ~result.raised
           /\ result.value = get_refs(self, REF, labels_ids, text).value
                                \o get_refs(self, REF, labels_one_word, text).value
                                \o get_refs(self, REF, labels_multi_word, text).value

\* C10: the ref of every match of labels_one_word and milestones_one_word is
\* one word: it holds no whitespace and at least one letter, hyphen or
\* underscore, so a numeric id followed by a space is no match of these kinds.
C10_OneWordRefIsOneWord ==
    (/\ call.op = "get_refs"
     /\ call.ref_type \in {labels_one_word, milestones_one_word})
        => \A j \in DOMAIN matches :
              LET ref == matches[j].groupdict.ref
              IN  /\ \A i \in DOMAIN ref : ref[i] \notin Whitespace
                  /\ \E i \in DOMAIN ref : ref[i] \in Lower \cup Upper \cup {"-", "_"}

-----------------------------------------------------------------------------
(* build_ref_url called again on the mapping it has filled in: SpecBuild *)

\* a mapping with the keys that have a value
Mapping(ref, namespace, project, base_url) ==
    LET v == [ref |-> ref, namespace |-> namespace, project |-> project, base_url |-> base_url]
    IN  [k \in {x \in DOMAIN v : v[x] # <<"<absent>">>} |-> v[k]]

\* refs with a quote, a space and a "+"; namespace and project absent, None
\* (an unmatched group), empty, or captured; base_url absent or left from before
Mappings ==
    { Mapping(ref, namespace, project, base_url) :
        ref \in ShortTexts({"a", "\"", " ", "+"}, MaxRef) \cup { <<"<absent>">> },
        namespace \in { <<"<absent>">>, None, <<>>, <<"o">> },
        project \in { <<"<absent>">>, None, <<"q">> },
        base_url \in { <<"<absent>">>, <<"http://old">> } }

\* every registered kind, and the prefix selector of the label kinds
BuildSelectors == {REF[i].name : i \in DOMAIN REF} \cup {labels}

\* provider.build_ref_url(ref_type, match_dict), on the caller's mapping object
BuildRefUrl(ref_type) ==
    /\ Len(returned) < MaxCalls
    /\ returned # <<>> => call.ref_type = ref_type
    /\ LET r == build_ref_url(self, REF, ref_type, match_dict)
       IN  /\ match_dict' = r.dict
           /\ result' = r.out
           /\ returned' = Append(returned, [given |-> match_dict, out |-> r.out])
    /\ call' = [op |-> "build_ref_url", ref_type |-> ref_type]
    /\ UNCHANGED <<self, REF, text, matches, threads>>

InitBuild ==
    /\ self \in Providers
    /\ REF = ClassREF(self.cls)
    /\ text = <<>>
    /\ call = NoCall
    /\ matches = <<>>
    /\ match_dict \in Mappings
    /\ returned = <<>>
    /\ result = NoResult
    /\ threads = <<>>

NextBuild == \E ref_type \in BuildSelectors : BuildRefUrl(ref_type)

SpecBuild == InitBuild /\ [][NextBuild]_vars

\* C7: build_ref_url called again with the same kind on the same mapping
\* object returns what the call before it returned, for both providers and
\* every kind, the GitLab label kinds (whose first call rewrites ref) included.
C7_SecondCallSameUrl ==
    \A i \in 1..(Len(returned) - 1) : returned[i + 1].out = returned[i].out

C7_Witness ==
    /\ self.cls = "GitLab"
    /\ call.op = "build_ref_url" /\ call.ref_type = labels_multi_word
    /\ Len(returned) = 2
    /\ returned[1].given = [ref |-> <<"\"", " ">>, namespace |-> None, project |-> None]
    /\ returned[2].given["ref"] = <<"+">>
    /\ ~returned[2].out.raised
    /\ returned[2].out = returned[1].out

-----------------------------------------------------------------------------
(* Several callers on one instance: SpecThreads.  A caller runs one call at *)
(* a time, statement by statement; the statements of different callers      *)
(* interleave.  Each caller's match_dict is its own object; self and REF    *)
(* are shared.                                                              *)

Callers == {"c1", "c2"}

Idle ==
    [pc |-> "idle", op |-> "none", ref_type |-> <<>>, args |-> <<>>,
     todo |-> <<>>, d |-> <<>>, out |-> <<>>, ret |-> NoResult]

\* the texts, mappings and tags the callers pass
ThreadTexts ==
    { <<"#","1">>,
      <<"o","/","p","#","1"," ","#","2">>,
      <<"q","#","3",","," ","@","b","o","b">> }
ThreadSelectors == {issues, mentions, <<"m">>}
ThreadMappings ==
    { [ref |-> <<"7">>],
      [ref |-> <<"7">>, namespace |-> <<"o">>, project |-> None],
      [ref |-> <<"\"","a"," ","b","\"">>, namespace |-> None, project |-> <<"q">>] }
ThreadKinds == {issues, labels_multi_word}
Tags == { <<"v","1">>, <<"v","2">> }

\* provider.get_refs(ref_type, text) is entered
CallGetRefs(c, ref_type, txt) ==
    /\ threads[c].pc = "idle"
    /\ threads' = [threads EXCEPT ![c] =
          [Idle EXCEPT !.pc = "parse_refs", !.op = "get_refs",
                       !.ref_type = ref_type, !.args = [text |-> txt]]]
    /\ UNCHANGED <<self, REF, text, call, matches, match_dict, returned, result>>

\* provider.build_ref_url(ref_type, match_dict) is entered
CallBuildRefUrl(c, ref_type, d) ==
    /\ threads[c].pc = "idle"
    /\ threads' = [threads EXCEPT ![c] =
          [Idle EXCEPT !.pc = "base_url", !.op = "build_ref_url",
                       !.ref_type = ref_type, !.args = [match_dict |-> d], !.d = d]]
    /\ UNCHANGED <<self, REF, text, call, matches, match_dict, returned, result>>

\* provider.get_compare_url(base, target) enters build_ref_url("commits_ranges", {"ref": ...})
CallGetCompareUrl(c, base, target) ==
    /\ threads[c].pc = "idle"
    /\ threads' = [threads EXCEPT ![c] =
          [Idle EXCEPT !.pc = "base_url", !.op = "get_compare_url",
                       !.ref_type = commits_ranges,
                       !.args = [base |-> base, target |-> target],
                       !.d = [ref |-> base \o <<".", ".", ".">> \o target]]]
    /\ UNCHANGED <<self, REF, text, call, matches, match_dict, returned, result>>

\* provider.get_tag_url(tag)
CallGetTagUrl(c, tag) ==
    /\ threads[c].pc = "idle"
    /\ threads' = [threads EXCEPT ![c] =
          [Idle EXCEPT !.pc = "done", !.op = "get_tag_url",
                       !.args = [tag |-> tag], !.ret = get_tag_url(self, tag)]]
    /\ UNCHANGED <<self, REF, text, call, matches, match_dict, returned, result>>

\* get_refs: self.parse_refs(ref_type, text)
StepParseRefs(c) ==
    /\ threads[c].pc = "parse_refs"
    /\ threads' = [threads EXCEPT
          ![c].todo = parse_refs(REF, threads[c].ref_type, threads[c].args.text),
          ![c].pc = "next_match"]
    /\ UNCHANGED <<self, REF, text, call, matches, match_dict, returned, result>>

\* get_refs: the comprehension takes the next match, or the list is complete
StepNextMatch(c) ==
    /\ threads[c].pc = "next_match"
    /\ threads' = [threads EXCEPT ![c] =
          IF threads[c].todo = <<>>
          THEN [@ EXCEPT !.pc = "done", !.ret = Returned(threads[c].out)]
          ELSE [@ EXCEPT !.pc = "base_url", !.d = Head(threads[c].todo).groupdict]]
    /\ UNCHANGED <<self, REF, text, call, matches, match_dict, returned, result>>

\* build_ref_url: match_dict["base_url"] = self.url
StepBaseUrl(c) ==
    /\ threads[c].pc = "base_url"
    /\ threads' = [threads EXCEPT ![c].d = FillBaseUrl(self, threads[c].d),
                                  ![c].pc = "namespace"]
    /\ UNCHANGED <<self, REF, text, call, matches, match_dict, returned, result>>

\* the captured namespace kept on the instance for the calls that follow
StepNamespace_shared(c) ==
    /\ threads[c].pc = "namespace"
    /\ self' = [self EXCEPT !.namespace =
                   IF Falsy(DictGet(threads[c].d, "namespace")) THEN @
                   ELSE threads[c].d["namespace"]]
    /\ threads' = [threads EXCEPT ![c].d = DictSet(threads[c].d, "namespace", self'.namespace),
                                  ![c].pc = "project"]
    /\ UNCHANGED <<REF, text, call, matches, match_dict, returned, result>>

\* build_ref_url: if not match_dict.get("namespace"): ... = self.namespace
StepNamespace(c) ==
    /\ threads[c].pc = "namespace"
    /\ threads' = [threads EXCEPT ![c].d = FillNamespace(self, threads[c].d),
                                  ![c].pc = "project"]
    /\ UNCHANGED <<self, REF, text, call, matches, match_dict, returned, result>>

\* build_ref_url: if not match_dict.get("project"): ... = self.project
StepProject(c) ==
    /\ threads[c].pc = "project"
    /\ threads' = [threads EXCEPT ![c].d = FillProject(self, threads[c].d),
                                  ![c].pc = IF self.cls = "GitLab" THEN "label" ELSE "format"]
    /\ UNCHANGED <<self, REF, text, call, matches, match_dict, returned, result>>

\* GitLab.build_ref_url: if ref_type.startswith("label"): rewrite match_dict["ref"]
StepLabel(c) ==
    /\ threads[c].pc = "label"
    /\ threads' = [threads EXCEPT ![c] =
          IF ~StartsWith(threads[c].ref_type, label)
          THEN [@ EXCEPT !.pc = "format"]
          ELSE IF "ref" \notin DOMAIN threads[c].d
               THEN [@ EXCEPT !.pc = "done", !.ret = KeyError]
               ELSE [@ EXCEPT !.pc = "format",
                              !.d = DictSet(threads[c].d, "ref", LabelRef(threads[c].d["ref"]))]]
    /\ UNCHANGED <<self, REF, text, call, matches, match_dict, returned, result>>

\* ProviderRefParser.build_ref_url, and what its caller does with the URL:
\* get_refs appends a Ref and goes on, the other calls return it
StepFormat(c) ==
    /\ threads[c].pc = "format"
    /\ LET url == ProviderRefParser_build_ref_url(REF, threads[c].ref_type, threads[c].d)
       IN  threads' = [threads EXCEPT ![c] =
              IF url.raised \/ threads[c].op # "get_refs"
              THEN [@ EXCEPT !.pc = "done", !.ret = url]
              ELSE [@ EXCEPT !.pc = "next_match",
                             !.out = Append(@, Ref(strip(Head(threads[c].todo).group), url.value)),
                             !.todo = Tail(@)]]
    /\ UNCHANGED <<self, REF, text, call, matches, match_dict, returned, result>>

\* the caller takes what the call returned
Return(c) ==
    /\ threads[c].pc = "done"
    /\ threads' = [threads EXCEPT ![c] = Idle]
    /\ UNCHANGED <<self, REF, text, call, matches, match_dict, returned, result>>

InitThreads ==
    /\ self \in Providers
    /\ REF = ClassREF(self.cls)
    /\ text = <<>>
    /\ call = NoCall
    /\ matches = <<>>
    /\ match_dict = <<>>
    /\ returned = <<>>
    /\ result = NoResult
    /\ threads = [c \in Callers |-> Idle]

NextThreads ==
    \E c \in Callers :
        \/ \E ref_type \in ThreadSelectors, txt \in ThreadTexts : CallGetRefs(c, ref_type, txt)
        \/ \E ref_type \in ThreadKinds, d \in ThreadMappings : CallBuildRefUrl(c, ref_type, d)
        \/ \E base \in Tags, target \in Tags : CallGetCompareUrl(c, base, target)
        \/ \E tag \in Tags : CallGetTagUrl(c, tag)
        \/ StepParseRefs(c)
        \/ StepNextMatch(c)
        \/ StepBaseUrl(c)
        \/ StepNamespace(c)
        \/ StepProject(c)
        \/ StepLabel(c)
        \/ StepFormat(c)
        \/ Return(c)

SpecThreads == InitThreads /\ [][NextThreads]_vars

\* the provider as it was constructed, and what a call returns when run alone
Constructed(cls) == CHOOSE p \in Providers : p.cls = cls
Alone(th) ==
    LET p == Constructed(self.cls)
        tbl == ClassREF(self.cls)
    IN  CASE th.op = "get_refs" -> get_refs(p, tbl, th.ref_type, th.args.text)
          [] th.op = "build_ref_url" -> build_ref_url(p, tbl, th.ref_type, th.args.match_dict).out
          [] th.op = "get_compare_url" -> get_compare_url(p, tbl, th.args.base, th.args.target)
          [] th.op = "get_tag_url" -> get_tag_url(p, th.args.tag)

\* C8: however the calls of several callers interleave, the instance keeps
\* its namespace, project and base url, its class keeps its REF table, and
\* every call returns what it returns when it runs alone.
C8_CallsIndependent ==
    /\ self = Constructed(self.cls)
    /\ REF = ClassREF(self.cls)
    /\ \A c \in Callers : threads[c].pc = "done" => threads[c].ret = Alone(threads[c])

\* one caller has resolved the cross-repository o/p#1 and is back on #2 while
\* the other returns a URL in the provider's own project
C8_Witness ==
    /\ threads["c1"].op = "get_refs"
    /\ Len(threads["c1"].out) = 1
    /\ threads["c1"].pc = "format"
    /\ threads["c1"].d["namespace"] = self.namespace
    /\ threads["c2"].pc = "done"
    /\ threads["c2"].op = "build_ref_url"
    /\ threads["c2"].args.match_dict = [ref |-> <<"7">>]
    /\ ~threads["c2"].ret.raised

====
